---- MODULE Spec2Model ----
(***************************************************************************)
(* Room-booking service: booking conflict engine and optimal-room          *)
(* scheduler (app/routers/bookings.py, app/routers/rooms.py,               *)
(* app/utils/scheduler.py, app/schemas/booking.py).                        *)
(*                                                                         *)
(* Time is an integer number of ticks.  One hour is HOUR ticks; the three  *)
(* sub-hour components the code inspects (minute, second, microsecond) are *)
(* the three binary digits of the tick offset inside the hour, so every    *)
(* combination of zero / nonzero components is expressible.  A minute is   *)
(* MINUTE ticks, so an hour has HOUR / MINUTE = 2 minutes and a slot        *)
(* duration, which the code takes in minutes, of one hour is written 2.     *)
(* Instants are counted from midnight of the day a slot listing asks for.   *)
(*                                                                         *)
(* The booking store is modelled as the interface the handlers use: a row  *)
(* carries the five fields the handlers read and write -- room_id,         *)
(* user_id, start_time, end_time, purpose (bookings.py 76-82, 198-199; the *)
(* filters at 66-70, 184-189 and 329-333 read Booking.end_time).  The ORM  *)
(* class in models/booking.py declares no end_time column; the mapping is  *)
(* not modelled, the handlers are.                                         *)
(***************************************************************************)
EXTENDS Integers, Sequences, FiniteSets, TLC

\* ---------------------------------------------------------------- bounds
MaxRoomId == 2
MaxBookingId == 2
MaxHour == 9
MaxCapacity == 2
MaxDuration == 5

\* ------------------------------------------------------- program constants
HOUR == 8
MINUTE == 4
DAY_START_HOUR == 8
WINDOW_HOURS == 10

\* ------------------------------------------------------------ input sets
Users == {1, 2}
\* An optional request field is either left out of the request (unset),
\* sent as null (None) or given a value.  Numeric fields use two integers
\* outside the value range for the first two, purpose uses two strings.
Unset == -1
None == -2
PurposeUnset == "unset"
PurposeNone == "None"
PurposeValues == {PurposeNone, "team"}
Capacities == 1..MaxCapacity
Hours == DAY_START_HOUR..MaxHour
\* Offsets inside the hour with exactly one nonzero component: microsecond,
\* second, minute.
MisalignedOffsets == {1, 2, 4}
AlignedStarts == {h * HOUR : h \in Hours}
StartTimes ==
    AlignedStarts \cup {DAY_START_HOUR * HOUR + o : o \in MisalignedOffsets}
BookingIdInputs == 1..(MaxBookingId + 1)

\* ------------------------------------------------------------------ state
\* rooms, bookings: the two tables.  last: the response of the request that
\* completed last.  calls: for each worker thread, the request it is in the
\* middle of (used when requests interleave).
VARIABLES rooms, bookings, last, calls

vars == <<rooms, bookings, last, calls>>

\* Worker threads; worker w serves requests authenticated as user w.
Workers == Users

\* ---------------------------------------------------------------- helpers
Max(S) == CHOOSE x \in S : \A y \in S : y <= x

\* SQLite INTEGER PRIMARY KEY without AUTOINCREMENT: the new rowid is one
\* more than the largest rowid in the table (1 for an empty table).
NextId(table) == IF DOMAIN table = {} THEN 1 ELSE Max(DOMAIN table) + 1

\* Python truthiness of an optional numeric request field (`x or y`).
Truthy(v) == v \notin {Unset, None, 0}

\* datetime components
minute(t) == (t % HOUR) \div 4
second(t) == (t % 4) \div 2
microsecond(t) == t % 2

\* timedelta(hours=1)
OneHour == HOUR

\* The response of the last completed request: the operation, the HTTP
\* status with its detail, the id of the row a successful request created,
\* changed or deleted (0 otherwise), and the slots a slot listing returned.
Response(op, status, id) ==
    [op |-> op, status |-> status, id |-> id, slots |-> <<>>]

EmptyTable == [i \in {} |-> 0]

\* db.add(row); db.commit()
Insert(table, id, row) ==
    [i \in (DOMAIN table) \cup {id} |-> IF i = id THEN row ELSE table[i]]

\* db.delete(row); db.commit()
Remove(table, ids) == [i \in (DOMAIN table) \ ids |-> table[i]]

Room(capacity) == [capacity |-> capacity]

Booking(room_id, user_id, start_time, end_time, purpose) ==
    [room_id |-> room_id, user_id |-> user_id, start_time |-> start_time,
     end_time |-> end_time, purpose |-> purpose]

\* Variant: only the minute is inspected.
SchemaStartOk_MinuteOnly(value) == ~(minute(value) # 0)

\* pydantic validator of BookingBase / BookingOptimizeRequest
SchemaStartOk(value) ==
    ~(minute(value) # 0 \/ second(value) # 0 \/ microsecond(value) # 0)

\* pydantic validator of BookingUpdate (skipped for an absent / null value)
SchemaUpdateStartOk(value) ==
    ~(Truthy(value) /\ (minute(value) # 0 \/ second(value) # 0 \/ microsecond(value) # 0))

\* The handlers' own check of the start time
RouterStartOk(t) == ~(minute(t) # 0 \/ second(t) # 0)

\* A worker's request in progress: the handler, the position in it, the
\* request fields and the handler's local variables.
Call(op, pc, booking_id, room_id, start_time, purpose, required_capacity) ==
    [op |-> op, pc |-> pc, booking_id |-> booking_id, room_id |-> room_id,
     start_time |-> start_time, purpose |-> purpose,
     required_capacity |-> required_capacity,
     loaded |-> Booking(0, 0, 0, 0, PurposeNone),
     new_start_time |-> 0, target |-> 0,
     available_rooms |-> <<>>, i |-> 0, optimal_room |-> 0, min_occupancy |-> 0,
     duration |-> 0, window_bookings |-> <<>>, slots |-> <<>>, current_time |-> 0]

Idle == Call("idle", "idle", 0, 0, 0, PurposeNone, 0)

Init ==
    /\ rooms = EmptyTable
    /\ bookings = EmptyTable
    /\ last = Response("init", "none", 0)
    /\ calls = [w \in Workers |-> Idle]

\* ------------------------------------------------------------ room handlers
\* POST /rooms/
create_room(capacity) ==
    LET id == NextId(rooms) IN
    /\ id <= MaxRoomId
    /\ rooms' = Insert(rooms, id, Room(capacity))
    /\ bookings' = bookings
    /\ last' = Response("create_room", "201", id)

\* PUT /rooms/{room_id}; only the capacity of a room is modelled.  An
\* explicit null capacity violates the NOT NULL column at commit.
update_room(room_id, capacity) ==
    IF room_id \notin DOMAIN rooms
    THEN /\ last' = Response("update_room", "404 Room not found", 0)
         /\ UNCHANGED <<rooms, bookings>>
    ELSE IF capacity = None
    THEN /\ last' = Response("update_room", "500", 0)
         /\ UNCHANGED <<rooms, bookings>>
    ELSE /\ rooms' = IF capacity = Unset THEN rooms
                     ELSE [rooms EXCEPT ![room_id] = Room(capacity)]
         /\ bookings' = bookings
         /\ last' = Response("update_room", "200", room_id)

\* Variant: the room is deleted without its bookings.
delete_room_NoCascade(room_id) ==
    IF room_id \notin DOMAIN rooms
    THEN /\ last' = Response("delete_room", "404 Room not found", 0)
         /\ UNCHANGED <<rooms, bookings>>
    ELSE /\ rooms' = Remove(rooms, {room_id})
         /\ bookings' = bookings
         /\ last' = Response("delete_room", "204", room_id)

\* DELETE /rooms/{room_id}; the relationship cascade deletes the room's
\* bookings with it.
delete_room(room_id) ==
    IF room_id \notin DOMAIN rooms
    THEN /\ last' = Response("delete_room", "404 Room not found", 0)
         /\ UNCHANGED <<rooms, bookings>>
    ELSE /\ rooms' = Remove(rooms, {room_id})
         /\ bookings' = Remove(bookings,
                {b \in DOMAIN bookings : bookings[b].room_id = room_id})
         /\ last' = Response("delete_room", "204", room_id)

\* --------------------------------------------------------- booking handlers
\* Each handler is a function of the stored tables and the request, giving
\* the response and the bookings table it commits; the action applies it.
Result(status, id, table) == [status |-> status, id |-> id, bookings |-> table]

\* Variant: the comparison written the wrong way round.
CapacityInsufficient_Swapped(room_id, required_capacity) ==
    required_capacity < rooms[room_id].capacity

\* room.capacity < booking.required_capacity
CapacityInsufficient(room_id, required_capacity) ==
    rooms[room_id].capacity < required_capacity

\* Variant: the bookings of every room are searched.
CreateOverlapping_AnyRoom(room_id, start_time, end_time) ==
    {b \in DOMAIN bookings :
        /\ bookings[b].start_time < end_time
        /\ bookings[b].end_time > start_time}

\* Variant: the second comparison made against the candidate's end.
CreateOverlapping_WrongEnd(room_id, start_time, end_time) ==
    {b \in DOMAIN bookings :
        /\ bookings[b].room_id = room_id
        /\ bookings[b].start_time < end_time
        /\ bookings[b].end_time > end_time}

\* The overlap query of create_booking.
CreateOverlapping(room_id, start_time, end_time) ==
    {b \in DOMAIN bookings :
        /\ bookings[b].room_id = room_id
        /\ bookings[b].start_time < end_time
        /\ bookings[b].end_time > start_time}

\* The row create_booking inserts.
NewBooking(room_id, user, start_time, purpose) ==
    Booking(room_id, user, start_time, start_time + OneHour, purpose)

\* Variant: the overlap query run before the capacity check.
CreateBookingResult_OverlapFirst(user, room_id, start_time, purpose, required_capacity) ==
    LET end_time == start_time + OneHour
        id == NextId(bookings)
    IN
    IF ~SchemaStartOk(start_time) THEN Result("422", 0, bookings)
    ELSE IF room_id \notin DOMAIN rooms
        THEN Result("404 Room not found", 0, bookings)
    ELSE IF CreateOverlapping(room_id, start_time, end_time) # {}
        THEN Result("400 Room is already booked for this time slot", 0, bookings)
    ELSE IF CapacityInsufficient(room_id, required_capacity)
        THEN Result("400 Room capacity insufficient", 0, bookings)
    ELSE IF ~RouterStartOk(start_time)
        THEN Result("400 Start time must be at the start of an hour", 0, bookings)
    ELSE Result("201", id,
                Insert(bookings, id, NewBooking(room_id, user, start_time, purpose)))

\* The checks of create_booking in the order the handler runs them; the
\* schema validator runs before the handler body.
CreateBookingResult(user, room_id, start_time, purpose, required_capacity) ==
    LET end_time == start_time + OneHour
        id == NextId(bookings)
    IN
    IF ~SchemaStartOk(start_time) THEN Result("422", 0, bookings)
    ELSE IF room_id \notin DOMAIN rooms
        THEN Result("404 Room not found", 0, bookings)
    ELSE IF CapacityInsufficient(room_id, required_capacity)
        THEN Result("400 Room capacity insufficient", 0, bookings)
    ELSE IF ~RouterStartOk(start_time)
        THEN Result("400 Start time must be at the start of an hour", 0, bookings)
    ELSE IF CreateOverlapping(room_id, start_time, end_time) # {}
        THEN Result("400 Room is already booked for this time slot", 0, bookings)
    ELSE Result("201", id,
                Insert(bookings, id, NewBooking(room_id, user, start_time, purpose)))

\* POST /bookings/
create_booking(user, room_id, start_time, purpose, required_capacity) ==
    LET r == CreateBookingResult(user, room_id, start_time, purpose, required_capacity)
    IN /\ r.id <= MaxBookingId
       /\ bookings' = r.bookings
       /\ rooms' = rooms
       /\ last' = Response("create_booking", r.status, r.id)

\* GET /bookings/{booking_id}
GetBookingResult(booking_id) ==
    IF booking_id \notin DOMAIN bookings
    THEN Result("404 Booking not found", 0, bookings)
    ELSE Result("200", booking_id, bookings)

get_booking(booking_id) ==
    LET r == GetBookingResult(booking_id)
    IN /\ last' = Response("get_booking", r.status, r.id)
       /\ UNCHANGED <<rooms, bookings>>

\* Variant: the requester compared with the wrong column.
NotOwner_WrongColumn(db_booking, user) == db_booking.room_id # user

\* db_booking.user_id != current_user["id"]
NotOwner(db_booking, user) == db_booking.user_id # user

\* Variant: the room and overlap checks run only when the start changes.
NeedsOverlapCheck_StartOnly(room_id, start_time) == Truthy(start_time)

\* Variant: the room and overlap checks run on every update.
NeedsOverlapCheck_Always(room_id, start_time) == TRUE

\* if booking_update.room_id or booking_update.start_time
NeedsOverlapCheck(room_id, start_time) == Truthy(room_id) \/ Truthy(start_time)

\* Variant: both comparisons non-strict (closed intervals).
UpdateOverlapping_Closed(room_id, booking_id, new_start_time, new_end_time) ==
    {b \in DOMAIN bookings :
        /\ bookings[b].room_id = room_id
        /\ b # booking_id
        /\ bookings[b].start_time <= new_end_time
        /\ bookings[b].end_time >= new_start_time}

\* The overlap query of update_booking.
UpdateOverlapping(room_id, booking_id, new_start_time, new_end_time) ==
    {b \in DOMAIN bookings :
        /\ bookings[b].room_id = room_id
        /\ b # booking_id
        /\ bookings[b].start_time < new_end_time
        /\ bookings[b].end_time > new_start_time}

\* Variant: the purpose sent is not stored.
ApplyUpdate_KeepsPurpose(db_booking, room_id, purpose, new_start_time, new_end_time) ==
    [db_booking EXCEPT
        !.room_id = IF room_id = Unset THEN @ ELSE room_id,
        !.start_time = new_start_time,
        !.end_time = new_end_time]

\* Variant: end_time is not recomputed.
ApplyUpdate_StaleEnd(db_booking, room_id, purpose, new_start_time, new_end_time) ==
    [db_booking EXCEPT
        !.room_id = IF room_id = Unset THEN @ ELSE room_id,
        !.purpose = IF purpose = PurposeUnset THEN @ ELSE purpose,
        !.start_time = new_start_time]

\* booking_update.dict(exclude_unset=True) applied with setattr, then the
\* two assignments of start_time and end_time.
ApplyUpdate(db_booking, room_id, purpose, new_start_time, new_end_time) ==
    [db_booking EXCEPT
        !.room_id = IF room_id = Unset THEN @ ELSE room_id,
        !.purpose = IF purpose = PurposeUnset THEN @ ELSE purpose,
        !.start_time = new_start_time,
        !.end_time = new_end_time]

UpdateBookingResult(user, booking_id, room_id, start_time, purpose) ==
    IF ~SchemaUpdateStartOk(start_time) THEN Result("422", 0, bookings)
    ELSE IF booking_id \notin DOMAIN bookings
        THEN Result("404 Booking not found", 0, bookings)
    ELSE
    LET db_booking == bookings[booking_id]
        new_start_time == IF Truthy(start_time) THEN start_time
                          ELSE db_booking.start_time
        new_end_time == new_start_time + OneHour
        target == IF Truthy(room_id) THEN room_id ELSE db_booking.room_id
    IN
    IF NotOwner(db_booking, user) THEN Result("403", 0, bookings)
    ELSE IF ~RouterStartOk(new_start_time)
        THEN Result("400 Start time must be at the start of an hour", 0, bookings)
    ELSE IF NeedsOverlapCheck(room_id, start_time) /\ target \notin DOMAIN rooms
        THEN Result("404 Room not found", 0, bookings)
    ELSE IF /\ NeedsOverlapCheck(room_id, start_time)
            /\ UpdateOverlapping(target, booking_id, new_start_time, new_end_time) # {}
        THEN Result("400 Room is already booked for this time slot", 0, bookings)
    \* room_id sent as null: the NOT NULL column rejects the commit
    ELSE IF room_id = None THEN Result("500", 0, bookings)
    ELSE Result("200", booking_id,
                [bookings EXCEPT ![booking_id] =
                    ApplyUpdate(db_booking, room_id, purpose,
                                new_start_time, new_end_time)])

\* PUT /bookings/{booking_id}
update_booking(user, booking_id, room_id, start_time, purpose) ==
    LET r == UpdateBookingResult(user, booking_id, room_id, start_time, purpose)
    IN /\ bookings' = r.bookings
       /\ rooms' = rooms
       /\ last' = Response("update_booking", r.status, r.id)

\* Variant: the delete is answered but the row is kept.
DeleteBookingResult_Kept(user, booking_id) ==
    IF booking_id \notin DOMAIN bookings
    THEN Result("404 Booking not found", 0, bookings)
    ELSE IF NotOwner(bookings[booking_id], user) THEN Result("403", 0, bookings)
    ELSE Result("204", booking_id, bookings)

\* Variant: the rows to delete selected by owner instead of by id.
DeleteBookingResult_ByOwner(user, booking_id) ==
    IF booking_id \notin DOMAIN bookings
    THEN Result("404 Booking not found", 0, bookings)
    ELSE IF NotOwner(bookings[booking_id], user) THEN Result("403", 0, bookings)
    ELSE Result("204", booking_id,
                Remove(bookings, {b \in DOMAIN bookings : bookings[b].user_id = user}))

DeleteBookingResult(user, booking_id) ==
    IF booking_id \notin DOMAIN bookings
    THEN Result("404 Booking not found", 0, bookings)
    ELSE IF NotOwner(bookings[booking_id], user) THEN Result("403", 0, bookings)
    ELSE Result("204", booking_id, Remove(bookings, {booking_id}))

\* DELETE /bookings/{booking_id}
delete_booking(user, booking_id) ==
    LET r == DeleteBookingResult(user, booking_id)
    IN /\ bookings' = r.bookings
       /\ rooms' = rooms
       /\ last' = Response("delete_booking", r.status, r.id)

\* ------------------------------------------------------ optimal-room selector
NoRoom == 0

\* float('inf'): larger than the capacity of any room
Infinity == MaxCapacity + 2

RECURSIVE Ascending(_)
Ascending(S) ==
    IF S = {} THEN <<>>
    ELSE LET m == CHOOSE x \in S : \A y \in S : x <= y
         IN <<m>> \o Ascending(S \ {m})

\* db.query(Room).filter(Room.capacity >= required_capacity).all(); the
\* query has no ORDER BY and the table scan lists rooms by ascending id.
AvailableRooms(required_capacity) ==
    Ascending({r \in DOMAIN rooms : rooms[r].capacity >= required_capacity})

\* Variant: only bookings that start after the requested start are counted.
Conflicts_After(room_id, start_time, end_time) ==
    Cardinality({b \in DOMAIN bookings :
        /\ bookings[b].room_id = room_id
        /\ bookings[b].start_time < end_time
        /\ bookings[b].start_time > start_time})

\* The conflict count of find_optimal_room for one room.
Conflicts(room_id, start_time, end_time) ==
    Cardinality({b \in DOMAIN bookings :
        /\ bookings[b].room_id = room_id
        /\ bookings[b].start_time < end_time
        /\ bookings[b].start_time >= start_time - OneHour})

\* Variant: the conflict count is not consulted.
RECURSIVE ScanRooms_IgnoreConflicts(_, _, _, _, _, _)
ScanRooms_IgnoreConflicts(available_rooms, i, start_time, end_time, optimal_room, min_occupancy) ==
    IF i > Len(available_rooms) THEN optimal_room
    ELSE LET room == available_rooms[i]
         IN IF rooms[room].capacity < min_occupancy
            THEN ScanRooms_IgnoreConflicts(available_rooms, i + 1, start_time,
                                           end_time, room, rooms[room].capacity)
            ELSE ScanRooms_IgnoreConflicts(available_rooms, i + 1, start_time,
                                           end_time, optimal_room, min_occupancy)

\* The loop of find_optimal_room from position i of available_rooms on.
RECURSIVE ScanRooms(_, _, _, _, _, _)
ScanRooms(available_rooms, i, start_time, end_time, optimal_room, min_occupancy) ==
    IF i > Len(available_rooms) THEN optimal_room
    ELSE LET room == available_rooms[i]
             conflicts == Conflicts(room, start_time, end_time)
         IN IF conflicts = 0 /\ rooms[room].capacity < min_occupancy
            THEN ScanRooms(available_rooms, i + 1, start_time, end_time,
                           room, rooms[room].capacity)
            ELSE ScanRooms(available_rooms, i + 1, start_time, end_time,
                           optimal_room, min_occupancy)

find_optimal_room(start_time, end_time, required_capacity) ==
    ScanRooms(AvailableRooms(required_capacity), 1, start_time, end_time,
              NoRoom, Infinity)

\* POST /bookings/optimize.  BookingOptimizeRequest declares start_time and
\* required_capacity only, so once a room is selected the read of
\* booking.purpose (bookings.py 281) raises AttributeError: the request
\* ends with a server error and nothing is inserted.
OptimizeBookingResult(user, start_time, required_capacity) ==
    LET end_time == start_time + OneHour
        optimal_room == find_optimal_room(start_time, end_time, required_capacity)
    IN
    IF ~SchemaStartOk(start_time) THEN Result("422", 0, bookings)
    ELSE IF ~RouterStartOk(start_time)
        THEN Result("400 Start time must be at the start of an hour", 0, bookings)
    ELSE IF optimal_room = NoRoom
        THEN Result("404 No suitable room available", 0, bookings)
    ELSE Result("500", 0, bookings)

optimize_booking(user, start_time, required_capacity) ==
    LET r == OptimizeBookingResult(user, start_time, required_capacity)
    IN /\ bookings' = r.bookings
       /\ rooms' = rooms
       /\ last' = Response("optimize_booking", r.status, r.id)

\* ---------------------------------------------------- availability enumerator
day_start == DAY_START_HOUR * HOUR

day_end == day_start + WINDOW_HOURS * HOUR

\* Variant: the duration taken in seconds.
duration_delta_Seconds(duration) == duration * (MINUTE \div 2)

\* timedelta(minutes=duration)
duration_delta(duration) == duration * MINUTE

\* Variant: the cursor is never moved past a booking.
max_First(a, b) == a

max(a, b) == IF a >= b THEN a ELSE b

Slot(start_time, end_time) == [start_time |-> start_time, end_time |-> end_time]

\* Variant: the first comparison strict.
InWindow_PastStart(row, room_id) ==
    /\ row.room_id = room_id
    /\ row.start_time > day_start
    /\ row.end_time <= day_end

\* The filter of the bookings query of get_available_slots.
InWindow(row, room_id) ==
    /\ row.room_id = room_id
    /\ row.start_time >= day_start
    /\ row.end_time <= day_end

\* Variant: the rows ordered by start_time descending.
RECURSIVE OrderByStart_Descending(_, _)
OrderByStart_Descending(table, ids) ==
    IF ids = {} THEN <<>>
    ELSE LET first == CHOOSE x \in ids : \A y \in ids :
                        \/ table[x].start_time > table[y].start_time
                        \/ table[x].start_time = table[y].start_time /\ x <= y
         IN <<first>> \o OrderByStart_Descending(table, ids \ {first})

\* The ids of a set of rows of the table, ordered by start_time.
RECURSIVE OrderByStart(_, _)
OrderByStart(table, ids) ==
    IF ids = {} THEN <<>>
    ELSE LET first == CHOOSE x \in ids : \A y \in ids :
                        \/ table[x].start_time < table[y].start_time
                        \/ table[x].start_time = table[y].start_time /\ x <= y
         IN <<first>> \o OrderByStart(table, ids \ {first})

\* db.query(Booking).filter(...).order_by(Booking.start_time).all()
WindowBookings(table, room_id) ==
    LET ids == OrderByStart(table,
                   {b \in DOMAIN table : InWindow(table[b], room_id)})
    IN [k \in 1..Len(ids) |-> table[ids[k]]]

\* Variant: a slot has to end before the limit.
Fits_Strict(current_time, delta, limit) == current_time + delta < limit

\* The condition of the two while loops.
Fits(current_time, delta, limit) == current_time + delta <= limit

\* A while loop: slots are appended for as long as one fits before the limit.
RECURSIVE EmitWhileFits(_, _, _, _)
EmitWhileFits(slots, current_time, delta, limit) ==
    IF Fits(current_time, delta, limit)
    THEN EmitWhileFits(Append(slots, Slot(current_time, current_time + delta)),
                       current_time + delta, delta, limit)
    ELSE [slots |-> slots, current_time |-> current_time]

\* The for loop over the bookings from position i on, then the last while.
RECURSIVE Sweep(_, _, _, _, _)
Sweep(window_bookings, i, slots, current_time, delta) ==
    IF i > Len(window_bookings)
    THEN EmitWhileFits(slots, current_time, delta, day_end).slots
    ELSE LET booking == window_bookings[i]
             before == EmitWhileFits(slots, current_time, delta, booking.start_time)
         IN Sweep(window_bookings, i + 1, before.slots,
                  max(before.current_time, booking.end_time), delta)

\* The slots get_available_slots computes for an existing room from a
\* bookings table.
AvailableSlots(table, room_id, duration) ==
    Sweep(WindowBookings(table, room_id), 1, <<>>, day_start,
          duration_delta(duration))

SlotsResult(status, slots) == [status |-> status, slots |-> slots]

GetAvailableSlotsResult(room_id, duration) ==
    IF duration <= 0 THEN SlotsResult("400 Duration must be positive", <<>>)
    ELSE IF room_id \notin DOMAIN rooms THEN SlotsResult("404 Room not found", <<>>)
    ELSE SlotsResult("200", AvailableSlots(bookings, room_id, duration))

\* GET /bookings/available_slots/; the response records the room asked for.
get_available_slots(room_id, duration) ==
    LET r == GetAvailableSlotsResult(room_id, duration)
    IN /\ last' = [Response("get_available_slots", r.status, room_id)
                       EXCEPT !.slots = r.slots]
       /\ UNCHANGED <<rooms, bookings>>

\* ------------------------------------------------------------ specification
\* One request at a time, its fields drawn from the given sets.
NextOver(users, purposes, capacities, room_ids) ==
    \/ \E capacity \in capacities :
          NextId(rooms) \in room_ids /\ create_room(capacity)
    \/ \E room_id \in room_ids \cup {0, MaxRoomId + 1},
          capacity \in capacities \cup {Unset, None} :
          update_room(room_id, capacity)
    \/ \E room_id \in room_ids \cup {0, MaxRoomId + 1} : delete_room(room_id)
    \/ \E user \in users, room_id \in room_ids \cup {0, MaxRoomId + 1},
          start_time \in StartTimes, purpose \in purposes,
          required_capacity \in capacities \cup {MaxCapacity + 1} :
          create_booking(user, room_id, start_time, purpose, required_capacity)
    \/ \E booking_id \in BookingIdInputs : get_booking(booking_id)
    \/ \E user \in users, booking_id \in BookingIdInputs,
          room_id \in room_ids \cup {0, MaxRoomId + 1, Unset, None},
          start_time \in StartTimes \cup {Unset, None},
          purpose \in purposes \cup {PurposeUnset} :
          update_booking(user, booking_id, room_id, start_time, purpose)
    \/ \E user \in users, booking_id \in BookingIdInputs :
          delete_booking(user, booking_id)
    \/ \E user \in users, start_time \in StartTimes,
          required_capacity \in capacities \cup {MaxCapacity + 1} :
          optimize_booking(user, start_time, required_capacity)

\* Scheduling: every room and capacity, one user, one purpose.
Next == NextOver({1}, {"team"}, Capacities, 1..MaxRoomId) /\ UNCHANGED calls

Spec == Init /\ [][Next]_vars

\* Ownership and purpose: every user and purpose, one room of capacity 1.
NextOwners == NextOver(Users, PurposeValues, {1}, {1}) /\ UNCHANGED calls

SpecOwners == Init /\ [][NextOwners]_vars

\* The overlap queries as functions of arbitrary rows: the tables start with
\* one room and one stored row whose interval is any [s, e) on the half-hour
\* grid, and create and update requests run against it.
HalfHours == {DAY_START_HOUR * HOUR + 4 * k : k \in 0..(2 * (MaxHour - DAY_START_HOUR) + 2)}

InitOverlap ==
    /\ rooms = Insert(EmptyTable, 1, Room(1))
    /\ \E s \in HalfHours, e \in HalfHours, user \in Users :
          /\ s < e
          /\ bookings = Insert(EmptyTable, 1, Booking(1, user, s, e, "team"))
    /\ last = Response("init", "none", 0)
    /\ calls = [w \in Workers |-> Idle]

NextOverlap ==
    /\ UNCHANGED calls
    /\ \/ \E room_id \in {1, 2}, start_time \in StartTimes :
            create_booking(1, room_id, start_time, "team", 1)
       \/ \E booking_id \in BookingIdInputs, room_id \in {Unset, 1},
            start_time \in StartTimes \cup {Unset} :
            update_booking(1, booking_id, room_id, start_time, PurposeUnset)

SpecOverlap == InitOverlap /\ [][NextOverlap]_vars

\* Slot listings: one room whose bookings are created and deleted at the
\* hours of the day from one hour before the window to its end, and listings
\* asked for it and for a room that does not exist.
DayHours == (DAY_START_HOUR - 1)..(DAY_START_HOUR + WINDOW_HOURS)

DayStarts == {h * HOUR : h \in DayHours}

WINDOW_MINUTES == (WINDOW_HOURS * HOUR) \div MINUTE

DurationInputs == (-1..MaxDuration) \cup {WINDOW_MINUTES, WINDOW_MINUTES + 1}

InitSlots ==
    /\ rooms = Insert(EmptyTable, 1, Room(1))
    /\ bookings = EmptyTable
    /\ last = Response("init", "none", 0)
    /\ calls = [w \in Workers |-> Idle]

NextSlots ==
    /\ UNCHANGED calls
    /\ \/ \E start_time \in DayStarts : create_booking(1, 1, start_time, "team", 1)
       \/ \E booking_id \in BookingIdInputs : delete_booking(1, booking_id)
       \/ \E room_id \in {1, 2}, duration \in DurationInputs :
             get_available_slots(room_id, duration)

SpecSlots == InitSlots /\ [][NextSlots]_vars

\* ------------------------------------------------------ interleaved requests
\* Handlers run in worker threads, each with its own session.  A handler is
\* split at its database calls: every query reads the tables as they are
\* when it runs, and the commit writes them.
Finish(w, op, status, id) ==
    /\ calls' = [calls EXCEPT ![w] = Idle]
    /\ last' = Response(op, status, id)

Goto(w, pc) == calls' = [calls EXCEPT ![w].pc = pc]

\* create_booking: the request arrives and passes the schema.
StartCreate(w, room_id, start_time, purpose, required_capacity) ==
    /\ calls[w] = Idle
    /\ SchemaStartOk(start_time)
    /\ calls' = [calls EXCEPT ![w] =
            Call("create_booking", "room", 0, room_id, start_time, purpose,
                 required_capacity)]
    /\ UNCHANGED <<rooms, bookings, last>>

\* create_booking: the room query, the capacity and start-time checks.
CreateQueryRoom(w) ==
    LET c == calls[w] IN
    /\ c.op = "create_booking" /\ c.pc = "room"
    /\ UNCHANGED <<rooms, bookings>>
    /\ IF c.room_id \notin DOMAIN rooms
       THEN Finish(w, c.op, "404 Room not found", 0)
       ELSE IF CapacityInsufficient(c.room_id, c.required_capacity)
       THEN Finish(w, c.op, "400 Room capacity insufficient", 0)
       ELSE IF ~RouterStartOk(c.start_time)
       THEN Finish(w, c.op, "400 Start time must be at the start of an hour", 0)
       ELSE Goto(w, "overlap") /\ last' = last

\* create_booking: the overlap query.
CreateQueryOverlap(w) ==
    LET c == calls[w] IN
    /\ c.op = "create_booking" /\ c.pc = "overlap"
    /\ UNCHANGED <<rooms, bookings>>
    /\ IF CreateOverlapping(c.room_id, c.start_time, c.start_time + OneHour) # {}
       THEN Finish(w, c.op, "400 Room is already booked for this time slot", 0)
       ELSE Goto(w, "commit") /\ last' = last

\* create_booking: db.add, db.commit.
CreateCommit(w) ==
    LET c == calls[w]
        id == NextId(bookings)
    IN
    /\ c.op = "create_booking" /\ c.pc = "commit"
    /\ id <= MaxBookingId
    /\ bookings' = Insert(bookings, id,
            NewBooking(c.room_id, w, c.start_time, c.purpose))
    /\ rooms' = rooms
    /\ Finish(w, c.op, "201", id)

\* update_booking: the request arrives and passes the schema.
StartUpdate(w, booking_id, room_id, start_time, purpose) ==
    /\ calls[w] = Idle
    /\ SchemaUpdateStartOk(start_time)
    /\ calls' = [calls EXCEPT ![w] =
            Call("update_booking", "load", booking_id, room_id, start_time,
                 purpose, 0)]
    /\ UNCHANGED <<rooms, bookings, last>>

\* update_booking: the booking query, the ownership and start-time checks.
UpdateLoad(w) ==
    LET c == calls[w] IN
    /\ c.op = "update_booking" /\ c.pc = "load"
    /\ UNCHANGED <<rooms, bookings>>
    /\ IF c.booking_id \notin DOMAIN bookings
       THEN Finish(w, c.op, "404 Booking not found", 0)
       ELSE
       LET db_booking == bookings[c.booking_id]
           new_start_time == IF Truthy(c.start_time) THEN c.start_time
                             ELSE db_booking.start_time
       IN IF NotOwner(db_booking, w) THEN Finish(w, c.op, "403", 0)
          ELSE IF ~RouterStartOk(new_start_time)
          THEN Finish(w, c.op, "400 Start time must be at the start of an hour", 0)
          ELSE /\ last' = last
               /\ calls' = [calls EXCEPT ![w] =
                    [c EXCEPT !.loaded = db_booking,
                              !.new_start_time = new_start_time,
                              !.target = IF Truthy(c.room_id) THEN c.room_id
                                         ELSE db_booking.room_id,
                              !.pc = IF NeedsOverlapCheck(c.room_id, c.start_time)
                                     THEN "room" ELSE "commit"]]

\* update_booking: the room query.
UpdateQueryRoom(w) ==
    LET c == calls[w] IN
    /\ c.op = "update_booking" /\ c.pc = "room"
    /\ UNCHANGED <<rooms, bookings>>
    /\ IF c.target \notin DOMAIN rooms
       THEN Finish(w, c.op, "404 Room not found", 0)
       ELSE Goto(w, "overlap") /\ last' = last

\* update_booking: the overlap query.
UpdateQueryOverlap(w) ==
    LET c == calls[w] IN
    /\ c.op = "update_booking" /\ c.pc = "overlap"
    /\ UNCHANGED <<rooms, bookings>>
    /\ IF UpdateOverlapping(c.target, c.booking_id, c.new_start_time,
                            c.new_start_time + OneHour) # {}
       THEN Finish(w, c.op, "400 Room is already booked for this time slot", 0)
       ELSE Goto(w, "commit") /\ last' = last

\* The UPDATE the session flushes: it sets the columns whose value differs
\* from the loaded one, in the row with the loaded id.
FlushUpdate(row, loaded, updated) ==
    [row EXCEPT
        !.room_id = IF updated.room_id # loaded.room_id THEN updated.room_id ELSE @,
        !.purpose = IF updated.purpose # loaded.purpose THEN updated.purpose ELSE @,
        !.start_time = IF updated.start_time # loaded.start_time
                       THEN updated.start_time ELSE @,
        !.end_time = IF updated.end_time # loaded.end_time
                     THEN updated.end_time ELSE @]

\* update_booking: the assignments, db.commit, db.refresh.  A row deleted in
\* the meantime, or a null room_id, makes the commit or the refresh raise.
UpdateCommit(w) ==
    LET c == calls[w]
        updated == ApplyUpdate(c.loaded, c.room_id, c.purpose, c.new_start_time,
                               c.new_start_time + OneHour)
    IN
    /\ c.op = "update_booking" /\ c.pc = "commit"
    /\ rooms' = rooms
    /\ IF c.booking_id \notin DOMAIN bookings \/ c.room_id = None
       THEN bookings' = bookings /\ Finish(w, c.op, "500", 0)
       ELSE /\ bookings' = [bookings EXCEPT ![c.booking_id] =
                    FlushUpdate(@, c.loaded, updated)]
            /\ Finish(w, c.op, "200", c.booking_id)

\* optimize_booking: the request arrives, passes the schema and the
\* handler's start-time check.
StartOptimize(w, start_time, required_capacity) ==
    /\ calls[w] = Idle
    /\ SchemaStartOk(start_time) /\ RouterStartOk(start_time)
    /\ calls' = [calls EXCEPT ![w] =
            Call("optimize_booking", "rooms", 0, 0, start_time, PurposeNone,
                 required_capacity)]
    /\ UNCHANGED <<rooms, bookings, last>>

\* find_optimal_room: the rooms query; the loop reads the capacities of the
\* Room objects it loaded here.
OptimizeQueryRooms(w) ==
    LET c == calls[w]
        ids == AvailableRooms(c.required_capacity)
    IN
    /\ c.op = "optimize_booking" /\ c.pc = "rooms"
    /\ calls' = [calls EXCEPT ![w] =
            [c EXCEPT !.available_rooms =
                          [k \in 1..Len(ids) |->
                              [id |-> ids[k], capacity |-> rooms[ids[k]].capacity]],
                      !.i = 1, !.optimal_room = NoRoom, !.min_occupancy = Infinity,
                      !.pc = "scan"]]
    /\ UNCHANGED <<rooms, bookings, last>>

\* find_optimal_room: one turn of the loop, with its conflict count query.
OptimizeScan(w) ==
    LET c == calls[w] IN
    /\ c.op = "optimize_booking" /\ c.pc = "scan"
    /\ c.i <= Len(c.available_rooms)
    /\ LET room == c.available_rooms[c.i]
           conflicts == Conflicts(room.id, c.start_time, c.start_time + OneHour)
           better == conflicts = 0 /\ room.capacity < c.min_occupancy
       IN calls' = [calls EXCEPT ![w] =
            [c EXCEPT !.i = @ + 1,
                      !.optimal_room = IF better THEN room.id ELSE @,
                      !.min_occupancy = IF better THEN room.capacity ELSE @]]
    /\ UNCHANGED <<rooms, bookings, last>>

\* optimize_booking after the selector returned: no room gives 404; with a
\* room, building the Booking reads booking.purpose, which the request
\* schema does not declare, and the handler raises before db.add.
OptimizeReserve(w) ==
    LET c == calls[w] IN
    /\ c.op = "optimize_booking" /\ c.pc = "scan"
    /\ c.i > Len(c.available_rooms)
    /\ UNCHANGED <<rooms, bookings>>
    /\ IF c.optimal_room = NoRoom
       THEN Finish(w, c.op, "404 No suitable room available", 0)
       ELSE Finish(w, c.op, "500", 0)

\* Two workers, one room of capacity 1, requests on the hour.
InitConc ==
    /\ rooms = Insert(EmptyTable, 1, Room(1))
    /\ bookings = EmptyTable
    /\ last = Response("init", "none", 0)
    /\ calls = [w \in Workers |-> Idle]

NextConc ==
    \E w \in Workers :
        \/ \E start_time \in AlignedStarts :
              StartCreate(w, 1, start_time, "team", 1)
        \/ CreateQueryRoom(w)
        \/ CreateQueryOverlap(w)
        \/ CreateCommit(w)
        \/ \E booking_id \in 1..MaxBookingId, start_time \in AlignedStarts :
              StartUpdate(w, booking_id, Unset, start_time, PurposeUnset)
        \/ UpdateLoad(w)
        \/ UpdateQueryRoom(w)
        \/ UpdateQueryOverlap(w)
        \/ UpdateCommit(w)
        \/ \E start_time \in AlignedStarts : StartOptimize(w, start_time, 1)
        \/ OptimizeQueryRooms(w)
        \/ OptimizeScan(w)
        \/ OptimizeReserve(w)

SpecConc == InitConc /\ [][NextConc]_vars

\* The same workers, with a request that deletes the room arriving between
\* their steps; delete_room runs from its query to its commit in one go.
NextConcDelete ==
    \/ NextConc
    \/ delete_room(1) /\ UNCHANGED calls

SpecConcDelete == InitConc /\ [][NextConcDelete]_vars

\* ------------------------------------------------------ the sweep, step by step
\* get_available_slots split at its database calls and at every turn of its
\* loops.  The request arrives.
StartSlots(w, room_id, duration) ==
    /\ calls[w] = Idle
    /\ calls' = [calls EXCEPT ![w] =
            [Call("get_available_slots", "check", 0, room_id, 0, PurposeNone, 0)
                EXCEPT !.duration = duration]]
    /\ UNCHANGED <<rooms, bookings, last>>

\* The duration check and the room query.
SlotsCheck(w) ==
    LET c == calls[w] IN
    /\ c.op = "get_available_slots" /\ c.pc = "check"
    /\ UNCHANGED <<rooms, bookings>>
    /\ IF c.duration <= 0
       THEN Finish(w, c.op, "400 Duration must be positive", c.room_id)
       ELSE IF c.room_id \notin DOMAIN rooms
       THEN Finish(w, c.op, "404 Room not found", c.room_id)
       ELSE Goto(w, "query") /\ last' = last

\* The bookings query and the initialisation of slots and current_time.
SlotsQuery(w) ==
    LET c == calls[w] IN
    /\ c.op = "get_available_slots" /\ c.pc = "query"
    /\ calls' = [calls EXCEPT ![w] =
            [c EXCEPT !.window_bookings = WindowBookings(bookings, c.room_id),
                      !.i = 1, !.slots = <<>>, !.current_time = day_start,
                      !.pc = "sweep"]]
    /\ UNCHANGED <<rooms, bookings, last>>

\* One turn of a while loop: a slot is appended and the cursor moved.
EmitSlot(w) ==
    LET c == calls[w]
        slot_end == c.current_time + duration_delta(c.duration)
    IN calls' = [calls EXCEPT ![w] =
            [c EXCEPT !.slots = Append(@, Slot(c.current_time, slot_end)),
                      !.current_time = slot_end]]

\* The inner while loop takes a turn: a slot fits before the booking.
SlotsBeforeBooking(w) ==
    LET c == calls[w] IN
    /\ c.op = "get_available_slots" /\ c.pc = "sweep"
    /\ c.i <= Len(c.window_bookings)
    /\ Fits(c.current_time, duration_delta(c.duration),
            c.window_bookings[c.i].start_time)
    /\ EmitSlot(w)
    /\ UNCHANGED <<rooms, bookings, last>>

\* The inner while loop ends: the cursor moves past the booking and the for
\* loop goes on to the next one.
SlotsPastBooking(w) ==
    LET c == calls[w] IN
    /\ c.op = "get_available_slots" /\ c.pc = "sweep"
    /\ c.i <= Len(c.window_bookings)
    /\ ~Fits(c.current_time, duration_delta(c.duration),
             c.window_bookings[c.i].start_time)
    /\ calls' = [calls EXCEPT ![w] =
            [c EXCEPT !.current_time = max(@, c.window_bookings[c.i].end_time),
                      !.i = @ + 1]]
    /\ UNCHANGED <<rooms, bookings, last>>

\* The last while loop takes a turn: a slot fits before day_end.
SlotsAfterLast(w) ==
    LET c == calls[w] IN
    /\ c.op = "get_available_slots" /\ c.pc = "sweep"
    /\ c.i > Len(c.window_bookings)
    /\ Fits(c.current_time, duration_delta(c.duration), day_end)
    /\ EmitSlot(w)
    /\ UNCHANGED <<rooms, bookings, last>>

\* The last while loop ends and the handler returns the slots.
SlotsReturn(w) ==
    LET c == calls[w] IN
    /\ c.op = "get_available_slots" /\ c.pc = "sweep"
    /\ c.i > Len(c.window_bookings)
    /\ ~Fits(c.current_time, duration_delta(c.duration), day_end)
    /\ calls' = [calls EXCEPT ![w] = Idle]
    /\ last' = [Response(c.op, "200", c.room_id) EXCEPT !.slots = c.slots]
    /\ UNCHANGED <<rooms, bookings>>

\* One room holding up to MaxBookingId hourly bookings that do not
\* intersect, as creates leave them; one worker lists its slots.
InitSweep ==
    /\ rooms = Insert(EmptyTable, 1, Room(1))
    /\ \E n \in 0..MaxBookingId : \E starts \in [1..n -> DayStarts] :
          /\ \A j, k \in 1..n : j # k => starts[j] # starts[k]
          /\ bookings = [b \in 1..n |-> NewBooking(1, 1, starts[b], "team")]
    /\ last = Response("init", "none", 0)
    /\ calls = [w \in Workers |-> Idle]

SweepWorker == 1

\* The steps a request takes once it has arrived.
SweepStep ==
    \/ SlotsCheck(SweepWorker)
    \/ SlotsQuery(SweepWorker)
    \/ SlotsBeforeBooking(SweepWorker)
    \/ SlotsPastBooking(SweepWorker)
    \/ SlotsAfterLast(SweepWorker)
    \/ SlotsReturn(SweepWorker)

NextSweep ==
    \/ \E room_id \in {1, 2}, duration \in DurationInputs :
          StartSlots(SweepWorker, room_id, duration)
    \/ SweepStep

\* The worker thread keeps running the handler it is in.
SpecSweep == InitSweep /\ [][NextSweep]_vars /\ WF_vars(SweepStep)

\* ===================================================================== claims
\* Request fields the properties quantify over.
RoomIdInputs == 0..(MaxRoomId + 1)
CapacityInputs == 1..(MaxCapacity + 1)
UpdateRoomInputs == RoomIdInputs \cup {Unset, None}
UpdateStartInputs == StartTimes \cup {Unset, None}
UpdatePurposeInputs == PurposeValues \cup {PurposeUnset}

\* The instants of the half-open interval [s, e).
Ticks(s, e) == s..(e - 1)

\* Two half-open intervals intersect.
Intersect(s1, e1, s2, e2) == Ticks(s1, e1) \cap Ticks(s2, e2) # {}

SlotTaken(room_id, start_time) ==
    \E b \in DOMAIN bookings :
        /\ bookings[b].room_id = room_id
        /\ Intersect(bookings[b].start_time, bookings[b].end_time,
                     start_time, start_time + HOUR)

C5_SelectorBestFit ==
    \A start_time \in AlignedStarts, cap \in CapacityInputs :
        LET r == find_optimal_room(start_time, start_time + OneHour, cap)
            free == {q \in DOMAIN rooms :
                        rooms[q].capacity >= cap /\ ~SlotTaken(q, start_time)}
        IN /\ r # NoRoom => rooms[r].capacity >= cap
           /\ free # {} =>
                /\ r \in free
                /\ \A q \in free : rooms[r].capacity <= rooms[q].capacity

C10_CapacityRejected ==
    \A user \in Users, r \in DOMAIN rooms, start_time \in AlignedStarts,
       purpose \in PurposeValues, cap \in CapacityInputs :
        cap > rooms[r].capacity =>
            LET res == CreateBookingResult(user, r, start_time, purpose, cap)
            IN /\ res.status = "400 Room capacity insufficient"
               /\ res.bookings = bookings

\* A create has just been refused for capacity while no booking exists at
\* all, so the slot it asked for was free.
C10_Witness ==
    /\ last = Response("create_booking", "400 Room capacity insufficient", 0)
    /\ DOMAIN rooms # {}
    /\ DOMAIN bookings = {}

\* The tables a request leaves untouched.
Untouched(res) == res.bookings = bookings

\* C7 as stated, for stored bookings: for every stored booking and every
\* requester other than its owner, update fails with 403 whatever the
\* payload and delete fails with 403, the bookings unchanged.
C7_AnyPayload ==
    \A user \in Users, booking_id \in DOMAIN bookings :
        bookings[booking_id].user_id # user =>
            LET del == DeleteBookingResult(user, booking_id)
            IN /\ del.status = "403" /\ Untouched(del)
               /\ \A room_id \in UpdateRoomInputs, start_time \in UpdateStartInputs,
                     purpose \in UpdatePurposeInputs :
                     LET upd == UpdateBookingResult(user, booking_id, room_id,
                                                    start_time, purpose)
                     IN upd.status = "403" /\ Untouched(upd)

\* C7, amended: for every requester other than the owner of a stored
\* booking, delete fails with 403 and update fails with 403 for every payload
\* that passes the BookingUpdate schema (start_time left out, null, or on
\* the hour); on an id that is not stored they fail with "Booking not found"
\* instead; a payload whose start_time is off the hour is refused by the
\* schema (422) before the booking is looked up.  The bookings are unchanged
\* in every one of these cases.
C7_ValidPayload ==
    \A user \in Users, booking_id \in BookingIdInputs :
        LET del == DeleteBookingResult(user, booking_id)
            expected ==
                IF booking_id \notin DOMAIN bookings THEN "404 Booking not found"
                ELSE "403"
        IN (booking_id \in DOMAIN bookings => bookings[booking_id].user_id # user)
           => /\ del.status = expected /\ Untouched(del)
              /\ \A room_id \in UpdateRoomInputs, start_time \in UpdateStartInputs,
                    purpose \in UpdatePurposeInputs :
                    LET upd == UpdateBookingResult(user, booking_id, room_id,
                                                   start_time, purpose)
                    IN IF SchemaUpdateStartOk(start_time)
                       THEN upd.status = expected /\ Untouched(upd)
                       ELSE upd.status = "422" /\ Untouched(upd)

\* A request on a stored booking has just been refused with 403.
C7_Witness ==
    /\ last.op \in {"update_booking", "delete_booking"}
    /\ last.status = "403"
    /\ DOMAIN bookings # {}

\* C8, state part: right after a successful delete the id is not stored, and
\* on any id that is not stored get, update (schema-valid payload) and
\* delete answer "Booking not found" and change nothing.
C8_DeletedIsGone ==
    /\ (last.op = "delete_booking" /\ last.status = "204")
            => last.id \notin DOMAIN bookings
    /\ \A booking_id \in BookingIdInputs \ DOMAIN bookings :
          /\ GetBookingResult(booking_id).status = "404 Booking not found"
          /\ \A user \in Users :
                /\ DeleteBookingResult(user, booking_id).status = "404 Booking not found"
                /\ Untouched(DeleteBookingResult(user, booking_id))
                /\ \A room_id \in UpdateRoomInputs, start_time \in UpdateStartInputs,
                      purpose \in UpdatePurposeInputs :
                      SchemaUpdateStartOk(start_time) =>
                        LET upd == UpdateBookingResult(user, booking_id, room_id,
                                                       start_time, purpose)
                        IN upd.status = "404 Booking not found" /\ Untouched(upd)

\* C8, step part: a successful delete removes the row of the deleted id, which
\* its requester owned, and leaves every other row and every room as it was.
C8_DeleteStep ==
    (last'.op = "delete_booking" /\ last'.status = "204") =>
        /\ last'.id \in DOMAIN bookings
        /\ DOMAIN bookings' = DOMAIN bookings \ {last'.id}
        /\ \A b \in DOMAIN bookings' : bookings'[b] = bookings[b]
        /\ rooms' = rooms

C9_PurposeOnly ==
    \A booking_id \in DOMAIN bookings, purpose \in PurposeValues :
        LET upd == UpdateBookingResult(bookings[booking_id].user_id, booking_id,
                                       Unset, Unset, purpose)
        IN /\ upd.status = "200"
           /\ DOMAIN upd.bookings = DOMAIN bookings
           /\ \A b \in DOMAIN bookings \ {booking_id} : upd.bookings[b] = bookings[b]
           /\ upd.bookings[booking_id].purpose = purpose
           /\ upd.bookings[booking_id].room_id = bookings[booking_id].room_id
           /\ upd.bookings[booking_id].start_time = bookings[booking_id].start_time
           /\ upd.bookings[booking_id].end_time = bookings[booking_id].end_time
           /\ upd.bookings[booking_id].user_id = bookings[booking_id].user_id

\* An update has just succeeded on a booking whose room_id and hour another
\* stored booking shares: an overlap check would have refused it.
C9_Witness ==
    /\ last.op = "update_booking" /\ last.status = "200"
    /\ \E b \in DOMAIN bookings :
          /\ b # last.id
          /\ bookings[b].room_id = bookings[last.id].room_id
          /\ bookings[b].start_time = bookings[last.id].start_time

Selected(w) ==
    /\ calls[w].op = "optimize_booking" /\ calls[w].pc = "scan"
    /\ calls[w].i > Len(calls[w].available_rooms)
    /\ calls[w].optimal_room # NoRoom

MisalignedStarts == StartTimes \ AlignedStarts

ValidationErrors == {"422", "400 Start time must be at the start of an hour"}

C13_OptimizeSucceeds ==
    \A user \in Users, start_time \in AlignedStarts, cap \in CapacityInputs :
        (\E r \in DOMAIN rooms :
            /\ rooms[r].capacity >= cap
            /\ \A b \in DOMAIN bookings : bookings[b].room_id # r)
        => LET res == OptimizeBookingResult(user, start_time, cap)
           IN /\ res.status = "201"
              /\ res.id \notin DOMAIN bookings
              /\ DOMAIN res.bookings = DOMAIN bookings \cup {res.id}
              /\ res.bookings[res.id].user_id = user
              /\ res.bookings[res.id].start_time = start_time
              /\ res.bookings[res.id].end_time = start_time + OneHour

\* C14: when no room has both capacity >= required_capacity and no booking
\* intersecting [start, start + 1h), the selector returns no room,
\* optimize-and-book fails with "No suitable room available" and the
\* bookings are unchanged.
C14_NoRoomNotFound ==
    \A user \in Users, start_time \in AlignedStarts, cap \in CapacityInputs :
        (\A r \in DOMAIN rooms :
            rooms[r].capacity < cap \/ SlotTaken(r, start_time))
        => LET res == OptimizeBookingResult(user, start_time, cap)
           IN /\ find_optimal_room(start_time, start_time + OneHour, cap) = NoRoom
              /\ res.status = "404 No suitable room available"
              /\ Untouched(res)

\* An optimize request has just been answered "No suitable room available"
\* while a room exists and every room is booked at every hour a request can
\* name.
C14_Witness ==
    /\ last = Response("optimize_booking", "404 No suitable room available", 0)
    /\ DOMAIN rooms # {}
    /\ \A r \in DOMAIN rooms, start_time \in AlignedStarts : SlotTaken(r, start_time)

\* A slot duration of 60 minutes.
MinutesPerHour == HOUR \div MINUTE

\* The hourly slots of a window of the given number of hours, from day_start.
HourlySlots(hours) ==
    [k \in 1..hours |-> Slot(day_start + (k - 1) * HOUR, day_start + k * HOUR)]

RoomBookings(room_id) == {b \in DOMAIN bookings : bookings[b].room_id = room_id}

RemovesIntersecting(r, b, duration) ==
    LET before == AvailableSlots(Remove(bookings, {b}), r, duration)
        after == AvailableSlots(bookings, r, duration)
        Clear(slot) == ~Intersect(slot.start_time, slot.end_time,
                                  bookings[b].start_time, bookings[b].end_time)
    IN after = SelectSeq(before, Clear)

InsideWindow(b) ==
    bookings[b].start_time >= day_start /\ bookings[b].end_time <= day_end

PositiveDurations == {d \in DurationInputs : d > 0}

WithinWindow(slots, duration) ==
    /\ Len(slots) <= WINDOW_MINUTES \div duration
    /\ \A k \in 1..Len(slots) : slots[k].end_time <= day_end

\* C18, state part: a request whose slot_duration is <= 0 is refused before
\* the bookings are queried or a slot is produced, and for a positive
\* slot_duration the slots produced never exceed floor(window length /
\* slot_duration) and none ends after the window end.
C18_SweepBounded ==
    LET c == calls[SweepWorker] IN
    /\ (c.op = "get_available_slots" /\ c.pc # "check") =>
            /\ c.duration > 0
            /\ WithinWindow(c.slots, c.duration)
    /\ \A room_id \in RoomIdInputs, duration \in DurationInputs :
          LET res == GetAvailableSlotsResult(room_id, duration)
          IN IF duration <= 0
             THEN res = SlotsResult("400 Duration must be positive", <<>>)
             ELSE WithinWindow(res.slots, duration)
    /\ (last.op = "get_available_slots" /\ last.status = "200") =>
            \A k \in 1..Len(last.slots) : last.slots[k].end_time <= day_end

C19_DeleteRoomStep ==
    (last'.op = "delete_room" /\ last'.status = "204") =>
        LET r == last'.id IN
        /\ r \in DOMAIN rooms /\ r \notin DOMAIN rooms'
        /\ \A b \in DOMAIN bookings' : bookings'[b].room_id # r
        /\ DOMAIN bookings' = {b \in DOMAIN bookings : bookings[b].room_id # r}
        /\ \A b \in DOMAIN bookings' : bookings'[b] = bookings[b]

\* C19: deleting a room removes every booking that refers to it: after
\* delete_room(r) succeeds no stored booking has room_id r, and the bookings
\* of other rooms are unchanged.
C19_DeleteRoomCascade == [][C19_DeleteRoomStep]_vars

\* A room has just been deleted; the booking created second is still
\* stored, in a room that exists, and the booking created first is gone.
C19_Witness ==
    /\ last.op = "delete_room" /\ last.status = "204"
    /\ DOMAIN bookings = {2}
    /\ bookings[2].room_id \in DOMAIN rooms

\* C20: an update by the owner that re-submits the booking's current room_id
\* and start_time succeeds and leaves the booking, and every other booking,
\* unchanged.
C20_ResubmitSucceeds ==
    \A booking_id \in DOMAIN bookings :
        LET row == bookings[booking_id]
            upd == UpdateBookingResult(row.user_id, booking_id, row.room_id,
                                       row.start_time, PurposeUnset)
        IN upd.status = "200" /\ Untouched(upd)

C22_SelectorSameTest ==
    \A r \in DOMAIN rooms, start_time \in AlignedStarts :
        (Conflicts(r, start_time, start_time + OneHour) > 0)
            <=> (CreateOverlapping(r, start_time, start_time + OneHour) # {})

C27_RoomIdRefersToRoom ==
    \A b \in DOMAIN bookings : bookings[b].room_id \in DOMAIN rooms

\* The stored bookings of a room, by id.
RoomRows(r) == [b \in RoomBookings(r) |-> bookings[b]]

NoRow == Booking(0, 0, 0, 0, PurposeNone)

\* What the requests that concern room r answer in the current state: the
\* status of every create for r and the row it stores, the status of every
\* update of a booking of r that keeps it in r and the row it stores, and
\* the slot listings of r for a duration of one hour and of an hour and a
\* half.
RoomOutcome(r) ==
    [create |->
        [x \in AlignedStarts \X CapacityInputs |->
            LET res == CreateBookingResult(1, r, x[1], "team", x[2])
            IN [status |-> res.status,
                row |-> IF res.status = "201" THEN res.bookings[res.id] ELSE NoRow]],
     update |->
        [x \in RoomBookings(r) \X (AlignedStarts \cup {Unset}) \X {Unset, r} |->
            LET res == UpdateBookingResult(bookings[x[1]].user_id, x[1], x[3],
                                           x[2], PurposeUnset)
            IN [status |-> res.status,
                row |-> IF res.status = "200" THEN res.bookings[x[1]] ELSE NoRow]],
     slots |->
        [duration \in {MinutesPerHour, MinutesPerHour + 1} |->
            GetAvailableSlotsResult(r, duration)]]

\* C24, step part: a step that leaves the rooms and the bookings of room r
\* as they were and changes bookings of other rooms does not change what the
\* requests that concern r answer.
C24_OtherRoomsStep ==
    \A r \in DOMAIN rooms :
        (rooms' = rooms /\ bookings' # bookings /\ RoomRows(r)' = RoomRows(r))
            => RoomOutcome(r)' = RoomOutcome(r)

\* C24, state part: a create for a room whose slot is free and whose
\* capacity suffices succeeds whatever the other rooms hold for that
\* interval.
C24_SameIntervalOtherRoom ==
    \A r \in DOMAIN rooms, start_time \in AlignedStarts :
        ~SlotTaken(r, start_time) =>
            CreateBookingResult(1, r, start_time, "team", 1).status = "201"

FreeEligible(start_time, cap) ==
    {q \in DOMAIN rooms : rooms[q].capacity >= cap /\ ~SlotTaken(q, start_time)}

\* C25: when several conflict-free eligible rooms share the minimal
\* capacity, the selector returns the one of them that comes first in the
\* room listing.
C25_FirstOfMinimal ==
    \A start_time \in AlignedStarts, cap \in CapacityInputs :
        LET free == FreeEligible(start_time, cap)
            minimal == {q \in free : \A p \in free :
                            rooms[q].capacity <= rooms[p].capacity}
            listing == AvailableRooms(cap)
        IN Cardinality(minimal) > 1 =>
            \E k \in 1..Len(listing) :
                /\ listing[k] = find_optimal_room(start_time, start_time + OneHour, cap)
                /\ listing[k] \in minimal
                /\ \A j \in 1..(k - 1) : listing[j] \notin minimal

\* C26: every booking lasting one hour, a room for which the selector
\* counts no conflict has no booking intersecting the requested interval;
\* the room the selector returns is such a room, and an optimize-and-book
\* request adds no booking that intersects a stored booking of its room.
C26_SelectorConservative ==
    \A start_time \in AlignedStarts :
        /\ \A r \in DOMAIN rooms :
              Conflicts(r, start_time, start_time + OneHour) = 0
                  => ~SlotTaken(r, start_time)
        /\ \A user \in Users, cap \in CapacityInputs :
              LET r == find_optimal_room(start_time, start_time + OneHour, cap)
                  res == OptimizeBookingResult(user, start_time, cap)
              IN /\ r # NoRoom => (r \in DOMAIN rooms /\ ~SlotTaken(r, start_time))
                 /\ \A n \in DOMAIN res.bookings \ DOMAIN bookings :
                       /\ res.bookings[n].room_id = r
                       /\ ~SlotTaken(r, res.bookings[n].start_time)

\* An optimize request has just got past the selector -- a room was
\* returned -- while every room holds a booking at some other hour.
C26_Witness ==
    /\ last.op = "optimize_booking" /\ last.status = "500"
    /\ DOMAIN rooms # {}
    /\ \A r \in DOMAIN rooms : RoomBookings(r) # {}

WindowStarts ==
    {h * HOUR : h \in DAY_START_HOUR..(DAY_START_HOUR + WINDOW_HOURS - 1)}

\* The listing of room r with 60-minute slots offers the hour that starts
\* at start_time.
ListsHour(r, start_time) ==
    LET slots == GetAvailableSlotsResult(r, MinutesPerHour).slots
    IN \E k \in 1..Len(slots) : slots[k] = Slot(start_time, start_time + HOUR)

Vacates(b) ==
    \/ last'.op = "delete_booking" /\ last'.status = "204" /\ last'.id = b
    \/ /\ last'.op = "update_booking" /\ last'.status = "200" /\ last'.id = b
       /\ \/ bookings'[b].room_id # bookings[b].room_id
          \/ bookings'[b].start_time # bookings[b].start_time

\* After a step that vacates the slot of a booking in an existing room, a
\* create for that room and start time with required_capacity <= the room's
\* capacity succeeds, and the listing of the room with 60-minute slots
\* offers that hour.
C30_ReleaseStep ==
    \A b \in DOMAIN bookings, r \in DOMAIN rooms, s \in AlignedStarts :
        (bookings[b].room_id = r /\ bookings[b].start_time = s /\ Vacates(b)) =>
            /\ \A user \in Users, cap \in 1..rooms[r].capacity :
                  (CreateBookingResult(user, r, s, "team", cap).status)' = "201"
            /\ s \in WindowStarts => ListsHour(r, s)'

====
